---- MODULE Spec2Model ----
(***************************************************************************)
(* Model of read_docx.py: the text extractor read_docx(file_path,          *)
(* output_path) and the command-line entry point that calls it.            *)
(*                                                                         *)
(* A parsed document is an ordered tree.  Its elements other than the root *)
(* are numbered 1..n in document order (preorder); 0 is the root element.  *)
(* findall('.//tag') never returns the element it is called on, so the tag *)
(* of the root is not recorded.                                            *)
(* Strings are sequences of one-character strings.                         *)
(***************************************************************************)
EXTENDS Integers, Sequences, FiniteSets, TLC

\* Largest number of elements below the root in the trees of SpecTree.
MaxNodes == 4
\* Largest number of paragraphs in the conventional documents of Spec.
MaxParas == 2
\* Largest number of successive invocations of the program in Spec.
MaxRuns == 2

\* The newline character used by '\n'.join.
NL == "\n"
\* Letters[j] is the character carried by the text of element j.
Letters == <<"a", "b", "c", "d", "e", "f", "g", "h", "i", "j", "k", "l">>
\* Element kinds: w:p, w:r, w:t and any other element (w:body, ...).
Tags == {"p", "r", "t", "x"}

VARIABLES
  pc,           \* position of the program
  argv,         \* TRUE iff a file path was given on the command line
  pkg,          \* the file at file_path
  dest,         \* the file at output_path
  dest0,        \* dest when read_docx was called
  zipOpen,      \* the handle of the input archive is open
  outOpen,      \* the handle of the output file is open
  buf,          \* text written to the output handle and not yet flushed
  xml_content,  \* bytes read from word/document.xml
  tree,         \* result of ET.fromstring
  text,         \* list of paragraph strings
  full_text,    \* '\n'.join(text)
  ret,          \* value returned by read_docx: "none", TRUE or FALSE
  err,          \* class of the exception raised in the try block
  stdout,       \* messages printed
  exitCode,     \* exit status of the process, -1 while it runs
  run,          \* number of the current invocation
  hist          \* outcome of the completed invocations

vars == <<pc, argv, pkg, dest, dest0, zipOpen, outOpen, buf, xml_content,
          tree, text, full_text, ret, err, stdout, exitCode, run, hist>>

(***************************************************************************)
(* Element trees and ElementTree's findall                                 *)
(***************************************************************************)

\* The proper ancestors of element j (the root 0 included).
RECURSIVE Ancestors(_, _)
Ancestors(tr, j) ==
  IF j = 0 THEN {} ELSE {tr[j].parent} \cup Ancestors(tr, tr[j].parent)

\* elem.findall('.//w:<tag>'): the descendants of elem with that tag, in
\* document order; elem itself is never part of the result.
findall(tr, elem, tag) ==
  SelectSeq([j \in 1..Len(tr) |-> j],
            LAMBDA j : elem \in Ancestors(tr, j) /\ tr[j].tag = tag)

\* The truth value of t.text: None and '' are both false (the parser gives
\* None to an element without character data).
Truthy(nd) == ~nd.none /\ nd.text # <<>>

\* Concatenation of a sequence of sequences, in order.
RECURSIVE Flatten(_)
Flatten(ss) ==
  IF ss = <<>> THEN <<>> ELSE Head(ss) \o Flatten(Tail(ss))

\* sep.join(strs)
RECURSIVE Join(_, _)
Join(sep, strs) ==
  IF strs = <<>> THEN <<>>
  ELSE IF Len(strs) = 1 THEN Head(strs)
  ELSE Head(strs) \o sep \o Join(sep, Tail(strs))

\* The elements t whose text the innermost loop appends for run r.
RunTexts(tr, r) ==
  SelectSeq(findall(tr, r, "t"), LAMBDA t : Truthy(tr[t]))

\* The elements whose text is appended to p_text for paragraph p, in the
\* order of the appends.
Appended(tr, p) ==
  LET rs == findall(tr, p, "r")
  IN  Flatten([k \in 1..Len(rs) |-> RunTexts(tr, rs[k])])

\* p_text after the loops over the runs and texts of paragraph p.
p_text(tr, p) ==
  LET ts == Appended(tr, p) IN [k \in 1..Len(ts) |-> tr[ts[k]].text]

\* A variant that appends the string of a paragraph only when it is not
\* empty.
KeepParagraphNonEmpty(s) == s # <<>>

\* Whether the string of a paragraph is appended to text (line 28 appends
\* it unconditionally).
KeepParagraph(s) == TRUE

\* The list text after the loop over the paragraphs.
ParagraphStrings(tr) ==
  LET ps == findall(tr, 0, "p")
      ss == [k \in 1..Len(ps) |-> Join(<<>>, p_text(tr, ps[k]))]
  IN  SelectSeq(ss, KeepParagraph)

(***************************************************************************)
(* Input documents                                                         *)
(***************************************************************************)

\* An element: its tag, its parent, and its text (none = the text is None).
Node(g, q, n, s) == [tag |-> g, parent |-> q, none |-> n, text |-> s]

\* The values of the text of element j that are told apart: None (an
\* element without character data), a letter, a letter and a newline.
TextsOf(g, j) ==
  IF g = "t"
  THEN {<<TRUE, <<>>>>, <<FALSE, <<Letters[j]>>>>, <<FALSE, <<Letters[j], NL>>>>}
  ELSE {<<TRUE, <<>>>>}

\* The elements that can follow the elements of tr in document order: the
\* parent is the last element or one of its ancestors.
NextNodes(tr) ==
  LET j  == Len(tr) + 1
      qs == IF tr = <<>> THEN {0} ELSE {Len(tr)} \cup Ancestors(tr, Len(tr))
  IN  UNION {{Node(g, q, tx[1], tx[2]) : tx \in TextsOf(g, j), q \in qs} :
             g \in Tags}

\* A conventional document: a body element whose children are paragraphs;
\* a paragraph with text holds one run with one text element, an empty
\* paragraph holds nothing.
RECURSIVE DocOf(_)
DocOf(paras) ==
  IF paras = <<>> THEN <<Node("x", 0, TRUE, <<>>)>>
  ELSE LET d == DocOf(SubSeq(paras, 1, Len(paras) - 1))
           s == paras[Len(paras)]
           n == Len(d)
       IN  IF s = <<>> THEN Append(d, Node("p", 1, TRUE, <<>>))
           ELSE d \o <<Node("p", 1, TRUE, <<>>), Node("r", n + 1, TRUE, <<>>),
                       Node("t", n + 2, FALSE, s)>>

\* The paragraph strings of the conventional documents.
ParaChoices == {<<>>, <<"a">>}

\* The files that file_path can name: no file, a file that is not a zip
\* archive, an archive without word/document.xml, an archive whose entry is
\* not well-formed XML, and a document.
Packages ==
  {[kind |-> k, doc |-> <<>>] :
     k \in {"missing", "notzip", "noentry", "malformed"}}
  \cup {[kind |-> "docx", doc |-> DocOf(ps)] :
          ps \in UNION {[1..n -> ParaChoices] : n \in 0..MaxParas}}

NoFile == [exists |-> FALSE, data |-> <<>>]
NoContent == [wellformed |-> FALSE, doc |-> <<>>]

\* The files that output_path can name before the call.
DestFiles == {NoFile, [exists |-> TRUE, data |-> <<"z">>]}

(***************************************************************************)
(* Exceptions                                                              *)
(***************************************************************************)

\* The base class of each exception class the try block can raise.
BaseOf ==
  [FileNotFoundError |-> "OSError", OSError |-> "Exception",
   BadZipFile |-> "Exception", KeyError |-> "LookupError",
   LookupError |-> "Exception", ParseError |-> "SyntaxError",
   SyntaxError |-> "Exception", Exception |-> "BaseException"]

RECURSIVE IsSubclass(_, _)
IsSubclass(e, c) ==
  \/ e = c
  \/ e \in DOMAIN BaseOf /\ IsSubclass(BaseOf[e], c)

\* A handler that catches only OSError.
CatchesOSError(e) == IsSubclass(e, "OSError")

\* except Exception as e
Catches(e) == IsSubclass(e, "Exception")

\* open(output_path, 'a'): the file keeps its content.
OpenForAppending(f) == [exists |-> TRUE, data |-> f.data]

\* open(output_path, 'w'): the file is created or truncated.
OpenForWriting(f) == [exists |-> TRUE, data |-> <<>>]

\* The exit status of a script that runs to its end.
ExitStatus(r) == 0

\* The lengths of the part of s that reaches the file when writing s fails.
Partial(s) == 0..(IF Len(s) = 0 THEN 0 ELSE Len(s) - 1)

(***************************************************************************)
(* The program                                                             *)
(***************************************************************************)

\* Lines 41-42, 46-47: no argument, the usage message is printed.
MainNoArg ==
  /\ pc = "main"
  /\ ~argv
  /\ stdout' = Append(stdout, "Please provide a file path")
  /\ pc' = "end"
  /\ UNCHANGED <<argv, pkg, dest, dest0, zipOpen, outOpen, buf, xml_content,
                 tree, text, full_text, ret, err, exitCode, run, hist>>

\* Lines 42-45: read_docx(sys.argv[1], "docx_content.txt") is called.
MainCall ==
  /\ pc = "main"
  /\ argv
  /\ dest0' = dest
  /\ pc' = "open_zip"
  /\ UNCHANGED <<argv, pkg, dest, zipOpen, outOpen, buf, xml_content, tree,
                 text, full_text, ret, err, stdout, exitCode, run, hist>>

\* Line 8 where the archive and the output are opened together.
OpenZipOkOutputFirst ==
  /\ pc = "open_zip"
  /\ pkg.kind \in {"noentry", "malformed", "docx"}
  /\ zipOpen' = TRUE
  /\ dest' = OpenForWriting(dest)
  /\ pc' = "read_entry"
  /\ UNCHANGED <<argv, pkg, dest0, outOpen, buf, xml_content, tree, text,
                 full_text, ret, err, stdout, exitCode, run, hist>>

\* Line 8: zipfile.ZipFile(file_path) opens the archive.
OpenZipOk ==
  /\ pc = "open_zip"
  /\ pkg.kind \in {"noentry", "malformed", "docx"}
  /\ zipOpen' = TRUE
  /\ pc' = "read_entry"
  /\ UNCHANGED <<argv, pkg, dest, dest0, outOpen, buf, xml_content, tree,
                 text, full_text, ret, err, stdout, exitCode, run, hist>>

\* Line 8: the file does not exist (nothing is opened) or is not a zip
\* archive (the constructor closes the file before it raises).
OpenZipFail ==
  /\ pc = "open_zip"
  /\ pkg.kind \in {"missing", "notzip"}
  /\ err' = IF pkg.kind = "missing" THEN "FileNotFoundError" ELSE "BadZipFile"
  /\ pc' = "except"
  /\ UNCHANGED <<argv, pkg, dest, dest0, zipOpen, outOpen, buf, xml_content,
                 tree, text, full_text, ret, stdout, exitCode, run, hist>>

\* Line 9: z.read('word/document.xml') returns the bytes of the entry.
ReadEntryOk ==
  /\ pc = "read_entry"
  /\ pkg.kind \in {"malformed", "docx"}
  /\ xml_content' = [wellformed |-> pkg.kind = "docx", doc |-> pkg.doc]
  /\ pc' = "close_zip"
  /\ UNCHANGED <<argv, pkg, dest, dest0, zipOpen, outOpen, buf, tree, text,
                 full_text, ret, err, stdout, exitCode, run, hist>>

\* Line 9 without the with statement: the KeyError leaves the archive open.
ReadEntryFailLeak ==
  /\ pc = "read_entry"
  /\ pkg.kind = "noentry"
  /\ err' = "KeyError"
  /\ pc' = "except"
  /\ UNCHANGED <<argv, pkg, dest, dest0, zipOpen, outOpen, buf, xml_content,
                 tree, text, full_text, ret, stdout, exitCode, run, hist>>

\* Line 9: the entry is absent, z.read raises KeyError and the with
\* statement closes the archive.
ReadEntryFail ==
  /\ pc = "read_entry"
  /\ pkg.kind = "noentry"
  /\ zipOpen' = FALSE
  /\ err' = "KeyError"
  /\ pc' = "except"
  /\ UNCHANGED <<argv, pkg, dest, dest0, outOpen, buf, xml_content, tree,
                 text, full_text, ret, stdout, exitCode, run, hist>>

\* Lines 8-9: the with statement ends and closes the archive.
CloseZip ==
  /\ pc = "close_zip"
  /\ zipOpen' = FALSE
  /\ pc' = "parse"
  /\ UNCHANGED <<argv, pkg, dest, dest0, outOpen, buf, xml_content, tree,
                 text, full_text, ret, err, stdout, exitCode, run, hist>>

\* Line 11: ET.fromstring(xml_content) returns the root element.
ParseOk ==
  /\ pc = "parse"
  /\ xml_content.wellformed
  /\ tree' = xml_content.doc
  /\ pc' = "traverse"
  /\ UNCHANGED <<argv, pkg, dest, dest0, zipOpen, outOpen, buf, xml_content,
                 text, full_text, ret, err, stdout, exitCode, run, hist>>

\* Line 11: the bytes are not well-formed XML.
ParseFail ==
  /\ pc = "parse"
  /\ ~xml_content.wellformed
  /\ err' = "ParseError"
  /\ pc' = "except"
  /\ UNCHANGED <<argv, pkg, dest, dest0, zipOpen, outOpen, buf, xml_content,
                 tree, text, full_text, ret, stdout, exitCode, run, hist>>

\* Lines 18-28: the loops over paragraphs, runs and texts.
Traverse ==
  /\ pc = "traverse"
  /\ text' = ParagraphStrings(tree)
  /\ pc' = "join"
  /\ UNCHANGED <<argv, pkg, dest, dest0, zipOpen, outOpen, buf, xml_content,
                 tree, full_text, ret, err, stdout, exitCode, run, hist>>

\* Line 30: full_text = '\n'.join(text)
JoinText ==
  /\ pc = "join"
  /\ full_text' = Join(<<NL>>, text)
  /\ pc' = "open_out"
  /\ UNCHANGED <<argv, pkg, dest, dest0, zipOpen, outOpen, buf, xml_content,
                 tree, text, ret, err, stdout, exitCode, run, hist>>

\* Line 32: open(output_path, 'w', encoding='utf-8') succeeds.
OpenOutOk ==
  /\ pc = "open_out"
  /\ dest' = OpenForWriting(dest)
  /\ outOpen' = TRUE
  /\ pc' = "write"
  /\ UNCHANGED <<argv, pkg, dest0, zipOpen, buf, xml_content, tree, text,
                 full_text, ret, err, stdout, exitCode, run, hist>>

\* Line 32: open fails (permissions, missing directory); the file is as it
\* was.
OpenOutFail ==
  /\ pc = "open_out"
  /\ err' = "OSError"
  /\ pc' = "except"
  /\ UNCHANGED <<argv, pkg, dest, dest0, zipOpen, outOpen, buf, xml_content,
                 tree, text, full_text, ret, stdout, exitCode, run, hist>>

\* Line 33: f.write(full_text) puts the text into the buffer of the handle.
WriteOk ==
  /\ pc = "write"
  /\ buf' = buf \o full_text
  /\ pc' = "close_out"
  /\ UNCHANGED <<argv, pkg, dest, dest0, zipOpen, outOpen, xml_content, tree,
                 text, full_text, ret, err, stdout, exitCode, run, hist>>

\* Line 33: the write fails after a part of the text reached the file; the
\* with statement closes the handle.
WriteFail ==
  /\ pc = "write"
  /\ \E n \in Partial(full_text) :
       dest' = [dest EXCEPT !.data = @ \o SubSeq(full_text, 1, n)]
  /\ buf' = <<>>
  /\ outOpen' = FALSE
  /\ err' = "OSError"
  /\ pc' = "except"
  /\ UNCHANGED <<argv, pkg, dest0, zipOpen, xml_content, tree, text,
                 full_text, ret, stdout, exitCode, run, hist>>

\* Lines 32-33: the with statement ends; the buffer is flushed and the
\* handle is closed.
CloseOutOk ==
  /\ pc = "close_out"
  /\ dest' = [dest EXCEPT !.data = @ \o buf]
  /\ buf' = <<>>
  /\ outOpen' = FALSE
  /\ pc' = "success"
  /\ UNCHANGED <<argv, pkg, dest0, zipOpen, xml_content, tree, text,
                 full_text, ret, err, stdout, exitCode, run, hist>>

\* Lines 32-33 where the error of the flush is swallowed.
CloseOutFailSilent ==
  /\ pc = "close_out"
  /\ \E n \in Partial(buf) :
       dest' = [dest EXCEPT !.data = @ \o SubSeq(buf, 1, n)]
  /\ buf' = <<>>
  /\ outOpen' = FALSE
  /\ pc' = "success"
  /\ UNCHANGED <<argv, pkg, dest0, zipOpen, xml_content, tree, text,
                 full_text, ret, err, stdout, exitCode, run, hist>>

\* Lines 32-33: the flush at the end of the with statement fails (disk
\* full) after a part of the buffer reached the file; the handle is closed
\* and the error is raised.
CloseOutFail ==
  /\ pc = "close_out"
  /\ \E n \in Partial(buf) :
       dest' = [dest EXCEPT !.data = @ \o SubSeq(buf, 1, n)]
  /\ buf' = <<>>
  /\ outOpen' = FALSE
  /\ err' = "OSError"
  /\ pc' = "except"
  /\ UNCHANGED <<argv, pkg, dest0, zipOpen, xml_content, tree, text,
                 full_text, ret, stdout, exitCode, run, hist>>

\* Lines 35-36: the success message and return True.
Success ==
  /\ pc = "success"
  /\ stdout' = Append(stdout, "Successfully wrote content")
  /\ ret' = "True"
  /\ pc' = "returned"
  /\ UNCHANGED <<argv, pkg, dest, dest0, zipOpen, outOpen, buf, xml_content,
                 tree, text, full_text, err, exitCode, run, hist>>

\* Lines 37-39: the handler prints the error and returns False; an
\* exception it does not catch leaves read_docx and ends the process.
Except ==
  /\ pc = "except"
  /\ IF Catches(err)
     THEN /\ stdout' = Append(stdout, "Error reading .docx file")
          /\ ret' = "False"
          /\ pc' = "returned"
          /\ UNCHANGED exitCode
     ELSE /\ pc' = "crashed"
          /\ exitCode' = 1
          /\ UNCHANGED <<stdout, ret>>
  /\ UNCHANGED <<argv, pkg, dest, dest0, zipOpen, outOpen, buf, xml_content,
                 tree, text, full_text, err, run, hist>>

\* Line 45: the value returned by read_docx is not used.
MainReturn ==
  /\ pc = "returned"
  /\ pc' = "end"
  /\ UNCHANGED <<argv, pkg, dest, dest0, zipOpen, outOpen, buf, xml_content,
                 tree, text, full_text, ret, err, stdout, exitCode, run, hist>>

\* The script reaches its end and the process exits.
Exit ==
  /\ pc = "end"
  /\ exitCode' = ExitStatus(ret)
  /\ hist' = Append(hist, [ret |-> ret, err |-> err, before |-> dest0,
                           dest |-> dest])
  /\ pc' = "exited"
  /\ UNCHANGED <<argv, pkg, dest, dest0, zipOpen, outOpen, buf, xml_content,
                 tree, text, full_text, ret, err, stdout, run>>

\* The program is invoked again with the same argument; the files are as the
\* previous invocation left them.
Reinvoke ==
  /\ pc = "exited"
  /\ run < MaxRuns
  /\ run' = run + 1
  /\ pc' = "main"
  /\ dest0' = dest
  /\ zipOpen' = FALSE
  /\ outOpen' = FALSE
  /\ buf' = <<>>
  /\ xml_content' = NoContent
  /\ tree' = <<>>
  /\ text' = <<>>
  /\ full_text' = <<>>
  /\ ret' = "none"
  /\ err' = "none"
  /\ stdout' = <<>>
  /\ exitCode' = -1
  /\ UNCHANGED <<argv, pkg, dest, hist>>

Init ==
  /\ pc = "main"
  /\ argv \in BOOLEAN
  /\ pkg \in Packages
  /\ dest \in DestFiles
  /\ dest0 = dest
  /\ zipOpen = FALSE
  /\ outOpen = FALSE
  /\ buf = <<>>
  /\ xml_content = NoContent
  /\ tree = <<>>
  /\ text = <<>>
  /\ full_text = <<>>
  /\ ret = "none"
  /\ err = "none"
  /\ stdout = <<>>
  /\ exitCode = -1
  /\ run = 1
  /\ hist = <<>>

Next ==
  \/ MainNoArg \/ MainCall
  \/ OpenZipOk \/ OpenZipFail
  \/ ReadEntryOk \/ ReadEntryFail
  \/ CloseZip
  \/ ParseOk \/ ParseFail
  \/ Traverse \/ JoinText
  \/ OpenOutOk \/ OpenOutFail
  \/ WriteOk \/ WriteFail
  \/ CloseOutOk \/ CloseOutFail
  \/ Success \/ Except
  \/ MainReturn \/ Exit \/ Reinvoke

Spec == Init /\ [][Next]_vars

(***************************************************************************)
(* The traversal on arbitrary trees                                        *)
(***************************************************************************)

\* The parser reads the next element of the document.
ParseElement ==
  /\ pc = "parse_tree"
  /\ Len(tree) < MaxNodes
  /\ \E nd \in NextNodes(tree) : tree' = Append(tree, nd)
  /\ UNCHANGED <<pc, argv, pkg, dest, dest0, zipOpen, outOpen, buf,
                 xml_content, text, full_text, ret, err, stdout, exitCode,
                 run, hist>>

\* The parser reaches the end of the document: the tree is complete.
ParseEnd ==
  /\ pc = "parse_tree"
  /\ pc' = "traverse"
  /\ UNCHANGED <<argv, pkg, dest, dest0, zipOpen, outOpen, buf, xml_content,
                 tree, text, full_text, ret, err, stdout, exitCode, run, hist>>

\* ET.fromstring on every document of at most MaxNodes elements below the
\* root, followed by the traversal.
InitTree ==
  /\ pc = "parse_tree"
  /\ tree = <<>>
  /\ argv = FALSE
  /\ pkg = [kind |-> "docx", doc |-> <<>>]
  /\ dest = NoFile
  /\ dest0 = NoFile
  /\ zipOpen = FALSE
  /\ outOpen = FALSE
  /\ buf = <<>>
  /\ xml_content = NoContent
  /\ text = <<>>
  /\ full_text = <<>>
  /\ ret = "none"
  /\ err = "none"
  /\ stdout = <<>>
  /\ exitCode = -1
  /\ run = 1
  /\ hist = <<>>

NextTree == ParseElement \/ ParseEnd \/ Traverse \/ JoinText

SpecTree == InitTree /\ [][NextTree]_vars

(***************************************************************************)
(* Notions used by the properties                                          *)
(***************************************************************************)

\* The number of occurrences of the character c in the string s.
Count(s, c) == Cardinality({i \in 1..Len(s) : s[i] = c})

\* The w:p elements below the root, in document order.
Paragraphs == SelectSeq([j \in 1..Len(tree) |-> j], LAMBDA j : tree[j].tag = "p")

\* The nearest proper ancestor of element j with the given tag, 0 if none.
Nearest(j, tag) ==
  LET as == {a \in Ancestors(tree, j) : a # 0 /\ tree[a].tag = tag}
  IN  IF as = {} THEN 0 ELSE CHOOSE a \in as : \A b \in as : b <= a

\* The element whose text carries the letter c.
ElementOf(c) == CHOOSE j \in 1..Len(Letters) : Letters[j] = c

\* The w:t elements with text that lie in a run of paragraph p, in document
\* order, each once.
TextsIn(p) ==
  SelectSeq([j \in 1..Len(tree) |-> j],
            LAMBDA j : /\ tree[j].tag = "t"
                       /\ Truthy(tree[j])
                       /\ \E r \in Ancestors(tree, j) :
                            r # 0 /\ tree[r].tag = "r"
                                  /\ p \in Ancestors(tree, r))

\* The traversal and the join are done.
Joined == pc = "open_out"

\* read_docx has returned, or the process went on after it.
Returned == pc \in {"returned", "end", "exited"} /\ ret # "none"

\* The exception classes of a failed extraction.
ExtractionErrors == {"FileNotFoundError", "BadZipFile", "KeyError", "ParseError"}

(***************************************************************************)
(* Properties                                                              *)
(***************************************************************************)

\* C1, as stated: a body with N >= 1 paragraphs gives an output with exactly
\* N lines, that is N-1 newline characters.
C1_ExactlyNLines ==
  (Joined /\ Len(Paragraphs) >= 1) =>
     Count(full_text, NL) = Len(Paragraphs) - 1

\* C1, amended: the output is made of exactly N paragraph strings in
\* document order, none omitted, joined by N-1 inserted newlines: its newline
\* characters are these N-1 and the ones the paragraph texts contain
\* themselves; a paragraph without text gives the empty string; N = 0 gives
\* the empty output.
C1_NParagraphStrings ==
  Joined =>
    LET N == Len(Paragraphs) IN
    /\ Len(text) = N
    /\ N = 0 => full_text = <<>>
    /\ N >= 1 => Count(full_text, NL) = (N - 1) + Count(Flatten(text), NL)
    /\ Len(full_text) = Len(Flatten(text)) + (IF N = 0 THEN 0 ELSE N - 1)
    /\ \A k \in 1..N :
         /\ \A i \in 1..Len(text[k]) :
              text[k][i] # NL => Paragraphs[k] \in Ancestors(tree, ElementOf(text[k][i]))
         /\ (TextsIn(Paragraphs[k]) = <<>>) <=> (text[k] = <<>>)

\* C1, witness: two paragraphs, the first without text, the second with a
\* text that contains a newline.
C1_Witness ==
  /\ Joined
  /\ Len(Paragraphs) = 2
  /\ Len(text) = 2
  /\ text[1] = <<>>
  /\ Count(text[2], NL) = 1
  /\ Count(full_text, NL) = 2

\* C2: every character of the string of a paragraph comes from a text of a
\* run that belongs to that paragraph (the nearest paragraph around the run
\* of the text is that paragraph).
C2_NoForeignRun ==
  Joined =>
    \A k \in 1..Len(text) : \A i \in 1..Len(text[k]) :
      text[k][i] # NL =>
        Nearest(Nearest(ElementOf(text[k][i]), "r"), "p") = Paragraphs[k]

\* C6: the string of a paragraph is the concatenation, in document order and
\* without separator, of the texts of the text elements in its runs.
C6_Concatenation ==
  Joined =>
    \A k \in 1..Len(text) :
      LET ts == TextsIn(Paragraphs[k])
      IN  text[k] = Flatten([n \in 1..Len(ts) |-> tree[ts[n]].text])

\* C9: the text of a text element occurs at most once in the string of a
\* paragraph and at most once in the whole output.
C9_NoDoubleCounting ==
  Joined =>
    \A j \in 1..Len(tree) :
      (tree[j].tag = "t" /\ Truthy(tree[j])) =>
        /\ \A k \in 1..Len(text) : Count(text[k], Letters[j]) <= 1
        /\ Count(full_text, Letters[j]) <= 1

\* C3: when the extraction fails, read_docx returns False and the
\* destination is as it was before the call; the destination is untouched
\* as long as the output has not been opened.
C3_DestinationUntouched ==
  /\ (Returned /\ err \in ExtractionErrors) => (ret = "False" /\ dest = dest0)
  /\ pc \in {"open_zip", "read_entry", "close_zip", "parse", "traverse",
             "join", "open_out"} => dest = dest0
  /\ (pc = "except" /\ err \in ExtractionErrors) => dest = dest0

\* C3, witness: a parse failure has been reported and the destination, which
\* existed before, still has its content.
C3_Witness ==
  /\ pc = "returned"
  /\ err = "ParseError"
  /\ ret = "False"
  /\ dest0.exists
  /\ dest = dest0

\* C4: no exception leaves read_docx; it returns False with a printed
\* message exactly when a step failed, and True otherwise.
C4_NothingPropagates ==
  /\ pc # "crashed"
  /\ Returned =>
       /\ ret \in {"True", "False"}
       /\ ret = "False" <=> err # "none"
       /\ ret = "False" => stdout = <<"Error reading .docx file">>
       /\ ret = "True" => stdout = <<"Successfully wrote content">>

\* C4, witness: the archive lacks word/document.xml and read_docx has
\* returned False.
C4_Witness ==
  /\ pc = "returned"
  /\ pkg.kind = "noentry"
  /\ err = "KeyError"
  /\ ret = "False"

\* C5: after an invocation with a file path the exit status is zero exactly
\* when read_docx returned True.
C5_ExitStatusReflectsResult ==
  (pc = "exited" /\ argv) => (exitCode = 0 <=> ret = "True")

\* C7: read_docx returns True only when the destination has been opened,
\* holds the complete newline-joined text and is closed; a failure of the
\* write gives False.
C7_TruthfulSuccess ==
  /\ (Returned /\ ret = "True") =>
       /\ dest.exists
       /\ dest.data = Join(<<NL>>, ParagraphStrings(pkg.doc))
       /\ ~outOpen
       /\ buf = <<>>
  /\ pc = "success" => (dest.data = full_text /\ ~outOpen /\ buf = <<>>)
  /\ (Returned /\ err = "OSError") => ret = "False"

\* C7, witness: True has been returned and the destination, which held other
\* content before, holds a text of two lines.
C7_Witness ==
  /\ pc = "returned"
  /\ ret = "True"
  /\ dest0 = [exists |-> TRUE, data |-> <<"z">>]
  /\ dest.data = <<"a", NL, "a">>

\* C8: two successive invocations on the same input, neither of which met a
\* failure of the destination, leave the same destination content.
C8_Idempotent ==
  \A k \in 1..(Len(hist) - 1) :
    (argv /\ hist[k].err # "OSError" /\ hist[k + 1].err # "OSError") =>
       hist[k + 1].dest = hist[k].dest

\* C8, witness: two successful invocations, the first on a destination that
\* held other content; the destination is not empty.
C8_Witness ==
  /\ Len(hist) = 2
  /\ hist[1].ret = "True"
  /\ hist[2].ret = "True"
  /\ hist[1].before = [exists |-> TRUE, data |-> <<"z">>]
  /\ hist[2].dest.data # <<>>

\* C10: the archive and the output are never open together, the archive is
\* closed before parsing and before the output is opened, and no handle is
\* open when an exception reaches the handler or when read_docx has returned.
C10_HandlesClosed ==
  /\ ~(zipOpen /\ outOpen)
  /\ pc \in {"parse", "traverse", "join", "open_out", "write", "close_out",
             "success"} => ~zipOpen
  /\ pc \in {"except", "returned", "end", "exited", "crashed"} =>
       (~zipOpen /\ ~outOpen)

\* C10, witness: read_docx has returned after the missing entry, and the
\* archive it had opened is closed.
C10_Witness ==
  /\ pc = "returned"
  /\ err = "KeyError"
  /\ ~zipOpen
  /\ ~outOpen

====
